---------------------------- MODULE Spec2Model ----------------------------
(***************************************************************************)
(* Model of the commodity dashboard: the landing page (Welcome.py) and the *)
(* three data pages (pages/Candle Stick Viewer.py, pages/Metals.py,        *)
(* pages/Oil.py).  A page is a script that is run top to bottom on every   *)
(* user interaction; a run is modelled section by section (pc is the       *)
(* position of the run in the script), and ends when the script reaches    *)
(* its footer ("done"), calls st.stop() ("stopped") or raises ("error").   *)
(* Dates are day numbers, prices are integers, NaN is a sentinel.          *)
(***************************************************************************)
EXTENDS Integers, Sequences, FiniteSets, TLC

VARIABLES
    page,             \* the script the session is on
    status,           \* "none" | "running" | "done" | "stopped" | "error"
    pc,               \* position of the current run in the script
    exc,              \* the exception that ended the run, or "none"
    msgs,             \* st.error / st.warning / st.info texts shown in this run
    computed,         \* derived series computed in this run
    charts,           \* st.plotly_chart calls of this run
    start,            \* start date of the run
    end,              \* end date of the run
    delta_days,       \* (end - start).days
    interval,         \* fetch interval
    fetched,          \* shape of the downloaded table
    rows,             \* number of rows of the table the page works on
    quotes,           \* fast_info quotes read in this run, by label
    pct,              \* percentage changes computed from the quotes, by label
    window_days,      \* rolling window chosen in the sidebar (0: not read)
    rollWindow,       \* window, in days, of the rolling mean/std (0: none)
    selected_labels,  \* Metals: column labels in selection order
    selected_tickers, \* Metals: tickers in selection order
    data,             \* Metals: working table, one series per column
    spreadStats,      \* Metals: reported spread statistics
    rawClose,         \* Metals: raw["Close"], one series per downloaded column
    Close,            \* Candlestick Viewer: data["Close"] of the extended table
    indPc,            \* Candlestick Viewer: position in the indicator tabs
    BB,               \* Candlestick Viewer: the MA20, BB_upper, BB_lower columns
    RSIcol,           \* Candlestick Viewer: the RSI column
    emaClose,         \* Candlestick Viewer: data["Close"] (EMA tab)
    EMA,              \* Candlestick Viewer: the EMA20, EMA50, EMA200 columns
    event,            \* session: the interaction that caused the last run
    custom_mode,      \* st.session_state["custom_mode"] ("absent" | "true" | "false")
    selected_commodity, \* st.session_state["selected_commodity"] ("absent" | ticker)
    custom_text,      \* value of the custom ticker text input
    textShown,        \* the text input was drawn in the last run
    cmAtInput,        \* custom_mode as read where the text input is decided
    selected,         \* the ticker passed to the fetch in the last run
    lastButton,       \* the ticker-row button pressed most recently
    manual_start,     \* st.session_state["manual_start"] (NoDate: absent)
    manual_end,       \* st.session_state["manual_end"] (NoDate: absent)
    active_preset,    \* st.session_state["active_preset"] ("absent" | "None" | label)
    fetchStart,       \* start used for the fetch in the last run
    fetchEnd,         \* end used for the fetch in the last run
    presetCleared,    \* the last run executed active_preset = None
    sessPage,         \* session: the page whose script the session runs
    widgetsDrawn,     \* the date widgets were drawn in the last run
    selected_names,   \* Metals: value of the multiselect
    lastPreset        \* the preset pressed last, "none" after an edit of a date widget

pageVars == <<page, status, pc, exc, msgs, computed, charts, start, end,
              delta_days, interval, fetched, rows, quotes, pct, window_days,
              rollWindow, selected_labels, selected_tickers, data, spreadStats,
              rawClose>>

indVars == <<Close, indPc, BB, RSIcol>>

emaVars == <<emaClose, EMA>>

tickerVars == <<custom_mode, selected_commodity, custom_text, textShown, cmAtInput,
                selected, lastButton>>

dateVars == <<manual_start, manual_end, active_preset, fetchStart, fetchEnd,
              presetCleared, widgetsDrawn, selected_names, lastPreset>>

sessVars == <<event, sessPage, tickerVars, dateVars>>

\* a run of a page script leaves the indicator columns of the numeric model alone
PageOnly == UNCHANGED <<indVars, emaVars, sessVars>>

-----------------------------------------------------------------------------
(* Values *)

\* np.nan in a table cell
NaN == -1000000

\* datetime.date.today(), as a day number
Today == 1000

\* a session-state date key that is not set
NoDate == 0

\* an interaction with the page: loading it ("open"), pressing a button of the
\* ticker row ("button"), typing into the custom text input ("text"), pressing
\* a quick-select button ("preset"), editing a date widget ("start", "end") or
\* changing the multiselect of Metals.py ("select")
Ev(k, n, d) == [kind |-> k, name |-> n, day |-> d]

\* before the first run
NoEvent == Ev("none", "", NoDate)

\* largest number of rows of a downloaded table
MaxRows == 2

IsNaN(v) == v = NaN

\* A float ratio num/den; den = 0 stands for NaN.
PctNaN == [num |-> 0, den |-> 0]

\* A quote of yf.Ticker(t).fast_info
Quotes == { [ok |-> TRUE, last_price |-> 1, previous_close |-> 0],
            [ok |-> TRUE, last_price |-> 3, previous_close |-> 2],
            [ok |-> TRUE, last_price |-> 1, previous_close |-> 2] }

\* fast_info that raises when read
FailingQuote == [ok |-> FALSE, last_price |-> 0, previous_close |-> 0]

StartChoices == { Today - 61, Today - 30, Today - 8, Today - 7, Today }
EndChoices == { Today - 1, Today }

\* st.sidebar.number_input("Rolling window (days)", min_value=1, max_value=365)
WindowChoices == { 7, 30 }

NoPct == << >>
NoData == << >>
NoStats == [shown |-> FALSE, current |-> NaN, avg |-> PctNaN, p5 |-> NaN, p95 |-> NaN]

-----------------------------------------------------------------------------
(* Welcome.py *)

\* the page scripts of the repository
PagesInRepo == { "pages/Candle Stick Viewer.py", "pages/Metals.py", "pages/Oil.py" }

NavButtons == { "Candlestick Viewer", "Metals", "Oil", "Softs" }

\* the st.switch_page target of each button
NavTarget(b) ==
    CASE b = "Candlestick Viewer" -> "pages/Candle Stick Viewer.py"
      [] b = "Metals"             -> "pages/Metals.py"
      [] b = "Oil"                -> "pages/Oil.py"
      [] b = "Softs"              -> "pages/Softs.py"

\* st.switch_page raises when the target is not a page of the app
SwitchPageOk(target) == target \in PagesInRepo

\* start of a run: nothing shown, nothing computed yet
ClearRun ==
    /\ computed' = {}
    /\ charts' = {}
    /\ fetched' = "none"
    /\ rows' = 0
    /\ quotes' = NoPct
    /\ pct' = NoPct
    /\ window_days' = 0
    /\ rollWindow' = 0
    /\ data' = NoData
    /\ spreadStats' = NoStats
    /\ rawClose' = NoData

\* A run of Welcome.py in which button b is pressed.
PressNav(b) ==
    /\ page = "Welcome.py"
    /\ PageOnly
    /\ status = "none"
    /\ ClearRun
    /\ msgs' = {}
    /\ pc' = "idle"
    /\ IF SwitchPageOk(NavTarget(b))
         THEN /\ page' = NavTarget(b)
              /\ status' = "none"
              /\ exc' = "none"
         ELSE /\ page' = page
              /\ status' = "error"
              /\ exc' = "StreamlitAPIException"
    /\ UNCHANGED <<start, end, delta_days, interval, selected_labels, selected_tickers>>

-----------------------------------------------------------------------------
(* Shared by Metals.py and Oil.py *)

\* the first threshold taken as exclusive
IntervalExclusive(d) ==
    IF d < 7 THEN "1m"
    ELSE IF d <= 60 THEN "15m"
    ELSE "1d"

\* Metals.py: the fetch interval chosen from the requested range
Interval(d) ==
    IF d <= 7 THEN "1m"
    ELSE IF d <= 60 THEN "15m"
    ELSE "1d"

\* (last_price - prev_close) / prev_close * 100 as a ratio
PctChange(q) ==
    [num |-> (q.last_price - q.previous_close) * 100, den |-> q.previous_close]

\* Python float division raises ZeroDivisionError on a zero divisor
DivisionRaises(q) == q.previous_close = 0

\* the guard with the boundary on the wrong side: a range equal to the window is refused
WindowTooLongInclusive(d, w) == d <= w

\* the guard of the Rolling Mean & Std tab
WindowTooLong(d, w) == d < w

\* the run ends with an unhandled exception
Raise(e) ==
    /\ status' = "error"
    /\ exc' = e
    /\ pc' = "idle"

\* the run reaches the footer
Finish ==
    /\ status' = "done"
    /\ pc' = "idle"
    /\ exc' = exc

\* the run ends in st.stop()
Stop ==
    /\ status' = "stopped"
    /\ pc' = "idle"
    /\ exc' = exc

\* the run goes on to the next section
Goto(next) ==
    /\ status' = "running"
    /\ pc' = next
    /\ exc' = "none"

-----------------------------------------------------------------------------
(* pages/Oil.py *)

\* Oil.py: the fetch interval chosen from the requested range
OilInterval(d) ==
    IF d <= 7 THEN "1m"
    ELSE IF d <= 60 THEN "15m"
    ELSE "1d"

OilMsgWindow == "Not enough data for a rolling window. Please select a larger viewing window."

\* Date range and interval.
OilDates(s, e) ==
    /\ page = "pages/Oil.py"
    /\ PageOnly
    /\ status = "none"
    /\ ClearRun
    /\ msgs' = {}
    /\ start' = s
    /\ end' = e
    /\ delta_days' = e - s
    /\ interval' = OilInterval(e - s)
    /\ Goto("fetch")
    /\ UNCHANGED <<page, selected_labels, selected_tickers>>

\* yf.download(...)["Close"].dropna(), rename, caption.
OilFetch(hasClose, n) ==
    /\ page = "pages/Oil.py"
    /\ PageOnly
    /\ UNCHANGED rawClose
    /\ pc = "fetch"
    /\ IF ~hasClose
         THEN /\ Raise("KeyError")
              /\ fetched' = "noClose"
              /\ rows' = rows
         ELSE /\ Goto("quotes")
              /\ fetched' = IF n = 0 THEN "empty" ELSE "ok"
              /\ rows' = n
    /\ UNCHANGED <<page, msgs, computed, charts, start, end, delta_days, interval,
                   quotes, pct, window_days, rollWindow, selected_labels,
                   selected_tickers, data, spreadStats>>

\* fast_info quotes, the two percentage changes and the six metrics.
OilQuotes(qb, qw) ==
    /\ page = "pages/Oil.py"
    /\ PageOnly
    /\ UNCHANGED rawClose
    /\ pc = "quotes"
    /\ quotes' = [l \in {"Brent", "WTI"} |-> IF l = "Brent" THEN qb ELSE qw]
    /\ IF DivisionRaises(qb) \/ DivisionRaises(qw)
         THEN /\ Raise("ZeroDivisionError")
              /\ pct' = pct
         ELSE /\ Goto("charts")
              /\ pct' = [l \in {"Brent", "WTI"} |->
                            IF l = "Brent" THEN PctChange(qb) ELSE PctChange(qw)]
    /\ UNCHANGED <<page, msgs, computed, charts, start, end, delta_days, interval,
                   fetched, rows, window_days, rollWindow, selected_labels,
                   selected_tickers, data, spreadStats>>

\* Price chart, returns chart and the Rolling Volatility tab.
OilCharts ==
    /\ page = "pages/Oil.py"
    /\ PageOnly
    /\ UNCHANGED rawClose
    /\ pc = "charts"
    /\ computed' = computed \cup {"returns", "volatility"}
    /\ charts' = charts \cup {"price", "returns", "volatility"}
    /\ Goto("tab2")
    /\ UNCHANGED <<page, msgs, start, end, delta_days, interval, fetched, rows, quotes,
                   pct, window_days, rollWindow, selected_labels, selected_tickers,
                   data, spreadStats>>

\* The Rolling Mean & Std tab.
OilTab2(w) ==
    /\ page = "pages/Oil.py"
    /\ PageOnly
    /\ UNCHANGED rawClose
    /\ pc = "tab2"
    /\ window_days' = w
    /\ IF WindowTooLong(delta_days, w)
         THEN /\ msgs' = msgs \cup {OilMsgWindow}
              /\ UNCHANGED <<computed, charts, rollWindow>>
         ELSE /\ rollWindow' = w
              /\ computed' = computed \cup {"roll_mean", "roll_std"}
              /\ charts' = charts \cup {"rolling"}
              /\ msgs' = msgs
    /\ Goto("tab3")
    /\ UNCHANGED <<page, start, end, delta_days, interval, fetched, rows, quotes,
                   pct, selected_labels, selected_tickers, data, spreadStats>>

\* The Brent-WTI Spread tab, the Rolling Correlation tab and the footer.
OilTab3Tab4 ==
    /\ page = "pages/Oil.py"
    /\ PageOnly
    /\ UNCHANGED rawClose
    /\ pc = "tab3"
    /\ IF rows = 0
         THEN \* spread.iloc[-1] on an empty series
              /\ Raise("IndexError")
              /\ computed' = computed \cup {"spread"}
              /\ charts' = charts
         ELSE /\ Finish
              /\ computed' = computed \cup {"spread", "correlation"}
              /\ charts' = charts \cup {"spread", "spread_hist", "correlation"}
    /\ UNCHANGED <<page, msgs, start, end, delta_days, interval, fetched, rows, quotes,
                   pct, window_days, rollWindow, selected_labels, selected_tickers,
                   data, spreadStats>>

OilRun ==
    \/ \E s \in StartChoices, e \in EndChoices : OilDates(s, e)
    \/ \E hasClose \in BOOLEAN, n \in 0..MaxRows : OilFetch(hasClose, n)
    \/ \E qb \in Quotes, qw \in Quotes : OilQuotes(qb, qw)
    \/ OilCharts
    \/ \E w \in WindowChoices : OilTab2(w)
    \/ OilTab3Tab4

-----------------------------------------------------------------------------
(* pages/Metals.py *)

\* the METALS dictionary
MetalsTicker(name) ==
    CASE name = "Gold"      -> "GC=F"
      [] name = "Silver"    -> "SI=F"
      [] name = "Copper"    -> "HG=F"
      [] name = "Platinum"  -> "PL=F"
      [] name = "Palladium" -> "PA=F"
      [] name = "Aluminum"  -> "ALI=F"
      [] name = "Nickel"    -> "NID=F"
      [] name = "Lead"      -> "LED=F"
      [] name = "Tin"       -> "TIN=F"

\* values of the multiselect, in selection order
NameChoices == { << >>, <<"Gold">>, <<"Gold", "Silver">> }

\* parsed custom tickers
CustomChoices == { << >>, <<"ZZZ">>, <<"GC=F">> }

MetalsMsgSelect == "Select at least one metal."
MetalsMsgNoData == "No data returned for the selected tickers/date range."
MetalsMsgNoClose == "Downloaded data did not include 'Close' prices."
MetalsMsgNoValid == "No valid closing price data for the current selection."
MetalsMsgWindow == "Not enough data for a rolling window. Increase the viewing window."
MetalsMsgRollEmpty == "Not enough data to compute rolling statistics."
MetalsMsgReturns == "Not enough data to compute returns for the current selection."
MetalsMsgVol == "Not enough data to compute 30D rolling volatility."
MetalsMsgSpread == "Select exactly two series to compute a spread (A - B)."
MetalsMsgCorr == "Select exactly two series to compute rolling correlation."
MetalsMsgCorrEmpty == "Not enough data to compute 90D rolling correlation."

\* [METALS[n] for n in selected_names] + custom_tickers
TickersOf(names, custom) == [i \in 1..Len(names) |-> MetalsTicker(names[i])] \o custom

\* selected_names + custom_tickers
LabelsOf(names, custom) == names \o custom

Range(f) == { f[i] : i \in DOMAIN f }

\* list.index
IndexOf(seq, x) == CHOOSE i \in 1..Len(seq) : seq[i] = x /\ \A j \in 1..(i - 1) : seq[j] # x

\* a column of n NaNs
NaNSeries(n) == [i \in 1..n |-> NaN]

\* close series a ticker can come back with: no data, a full series, a gap at the end
SeriesChoices(n) ==
    { NaNSeries(n),
      [i \in 1..n |-> 2 * i],
      [i \in 1..n |-> IF i = 1 THEN 5 ELSE NaN] }

\* the columns of raw["Close"]: one per distinct ticker, or the single series
\* named "Close" when the download has no ticker level
DownloadedColumns(tickers, multi) == IF multi THEN Range(tickers) ELSE {"Close"}

\* the rename map of a downloaded column
RenameMap(t, tickers, labels) ==
    IF t \in Range(tickers) THEN labels[IndexOf(tickers, t)] ELSE t

\* rename, add the missing labels as NaN columns, restrict to the selection
WorkingTable(closes, tickers, labels, n) ==
    [i \in 1..Len(labels) |->
        IF \E t \in DOMAIN closes : RenameMap(t, tickers, labels) = labels[i]
          THEN closes[CHOOSE t \in DOMAIN closes : RenameMap(t, tickers, labels) = labels[i]]
          ELSE NaNSeries(n)]

\* Selection of the series, date range and interval.
MetalsSelect(names, custom, s, e) ==
    /\ page = "pages/Metals.py"
    /\ PageOnly
    /\ status = "none"
    /\ ClearRun
    /\ selected_tickers' = TickersOf(names, custom)
    /\ selected_labels' = LabelsOf(names, custom)
    /\ IF Len(TickersOf(names, custom)) = 0
         THEN /\ msgs' = {MetalsMsgSelect}
              /\ Stop
              /\ UNCHANGED <<start, end, delta_days, interval>>
         ELSE /\ msgs' = {}
              /\ start' = s
              /\ end' = e
              /\ delta_days' = e - s
              /\ interval' = Interval(e - s)
              /\ Goto("fetch")
    /\ UNCHANGED page

\* Download, Close columns, rename and reorder.
MetalsFetch(shape, multi, n, closes) ==
    /\ page = "pages/Metals.py"
    /\ PageOnly
    /\ pc = "fetch"
    /\ DOMAIN closes = DownloadedColumns(selected_tickers, multi)
    /\ fetched' = shape
    /\ IF shape \in {"None", "empty"}
         THEN /\ msgs' = msgs \cup {MetalsMsgNoData}
              /\ Stop
              /\ UNCHANGED <<rows, data, rawClose>>
         ELSE IF shape = "noClose"
         THEN /\ msgs' = msgs \cup {MetalsMsgNoClose}
              /\ Stop
              /\ UNCHANGED <<rows, data, rawClose>>
         ELSE IF n = 0 \/ Len(selected_labels) = 0
         THEN /\ msgs' = msgs \cup {MetalsMsgNoValid}
              /\ Stop
              /\ rawClose' = closes
              /\ UNCHANGED <<rows, data>>
         ELSE /\ msgs' = msgs
              /\ rows' = n
              /\ rawClose' = closes
              /\ data' = WorkingTable(closes, selected_tickers, selected_labels, n)
              /\ Goto("metrics")
    /\ UNCHANGED <<page, computed, charts, start, end, delta_days, interval, quotes,
                   pct, window_days, rollWindow, selected_labels, selected_tickers,
                   spreadStats>>

\* change_pct of the metrics loop
MetalsChangePct(q) ==
    IF ~q.ok THEN PctNaN
    ELSE IF q.previous_close # 0 THEN PctChange(q)
    ELSE PctNaN

\* a row with a return in every column (data.pct_change().dropna())
ReturnRows(tbl, n) ==
    { i \in 2..n : \A c \in DOMAIN tbl : ~IsNaN(tbl[c][i]) /\ ~IsNaN(tbl[c][i - 1]) }

\* the returns of one column
ColumnReturns(col) ==
    { i \in 2..Len(col) : ~IsNaN(col[i]) /\ ~IsNaN(col[i - 1]) }

\* Live metrics, price and returns charts, Rolling Volatility tab.
MetalsMetrics(qs) ==
    /\ page = "pages/Metals.py"
    /\ PageOnly
    /\ UNCHANGED rawClose
    /\ pc = "metrics"
    /\ quotes' = qs
    /\ pct' = [i \in DOMAIN qs |-> MetalsChangePct(qs[i])]
    /\ computed' = computed \cup {"returns", "volatility"}
    /\ charts' = charts \cup {"price"}
                   \cup (IF ReturnRows(data, rows) # {} THEN {"returns"} ELSE {})
                   \cup (IF \E c \in DOMAIN data : Cardinality(ColumnReturns(data[c])) >= 2
                           THEN {"volatility"} ELSE {})
    /\ msgs' = msgs
                   \cup (IF ReturnRows(data, rows) # {} THEN {} ELSE {MetalsMsgReturns})
                   \cup (IF \E c \in DOMAIN data : Cardinality(ColumnReturns(data[c])) >= 2
                           THEN {} ELSE {MetalsMsgVol})
    /\ Goto("tab2")
    /\ UNCHANGED <<page, start, end, delta_days, interval, fetched, rows, window_days,
                   rollWindow, selected_labels, selected_tickers, data, spreadStats>>

\* some cell of the table holds a price
HasValue(tbl) == \E c \in DOMAIN tbl : \E i \in DOMAIN tbl[c] : ~IsNaN(tbl[c][i])

\* The Rolling Mean & Std tab.
MetalsTab2(w) ==
    /\ page = "pages/Metals.py"
    /\ PageOnly
    /\ UNCHANGED rawClose
    /\ pc = "tab2"
    /\ window_days' = w
    /\ IF WindowTooLong(delta_days, w)
         THEN /\ msgs' = msgs \cup {MetalsMsgWindow}
              /\ UNCHANGED <<computed, charts, rollWindow>>
         ELSE /\ rollWindow' = w
              /\ computed' = computed \cup {"roll_mean", "roll_std"}
              /\ IF HasValue(data)
                   THEN /\ charts' = charts \cup {"rolling"}
                        /\ msgs' = msgs
                   ELSE /\ charts' = charts
                        /\ msgs' = msgs \cup {MetalsMsgRollEmpty}
    /\ Goto("tab3")
    /\ UNCHANGED <<page, start, end, delta_days, interval, fetched, rows, quotes, pct,
                   selected_labels, selected_tickers, data, spreadStats>>

\* data[a] - data[b]: NaN wherever either side is NaN
Spread(a, b) ==
    [i \in 1..Len(a) |-> IF IsNaN(a[i]) \/ IsNaN(b[i]) THEN NaN ELSE a[i] - b[i]]

\* Series.dropna()
DropNa(s) == SelectSeq(s, LAMBDA v : ~IsNaN(v))

RECURSIVE SumSeq(_)
SumSeq(s) == IF s = << >> THEN 0 ELSE Head(s) + SumSeq(Tail(s))

\* Series.mean(): the mean of the values that are not NaN, as a ratio
SeriesMean(s) == [num |-> SumSeq(DropNa(s)), den |-> Len(DropNa(s))]

RECURSIVE Insert(_, _)
Insert(x, s) ==
    IF s = << >> THEN <<x>>
    ELSE IF x <= Head(s) THEN <<x>> \o s
    ELSE <<Head(s)>> \o Insert(x, Tail(s))

RECURSIVE SortAsc(_)
SortAsc(s) == IF s = << >> THEN << >> ELSE Insert(Head(s), SortAsc(Tail(s)))

\* np.percentile(v, q) of a non-empty array, times 100: linear interpolation
\* between the two order statistics around position (len - 1) * q / 100
Percentile100(v, q) ==
    LET sorted == SortAsc(v)
        pos == (Len(v) - 1) * q
        k == pos \div 100
        f == pos % 100
    IN  IF f = 0 THEN 100 * sorted[k + 1]
        ELSE 100 * sorted[k + 1] + f * (sorted[k + 2] - sorted[k + 1])

\* the four spread metrics
SpreadStats(spread) ==
    [shown   |-> TRUE,
     current |-> spread[Len(spread)],
     avg     |-> SeriesMean(spread),
     p5      |-> IF DropNa(spread) = << >> THEN NaN ELSE Percentile100(DropNa(spread), 5),
     p95     |-> IF DropNa(spread) = << >> THEN NaN ELSE Percentile100(DropNa(spread), 95)]

\* the number of series the spread and correlation tabs require
TwoSeries(tbl) == Len(tbl) = 2

\* rows where both series hold a price
JointRows(a, b) == { i \in 1..Len(a) : ~IsNaN(a[i]) /\ ~IsNaN(b[i]) }

\* The Spread tab, the Rolling Correlation tab and the footer.  np.percentile
\* of an empty array is NaN or an IndexError, by numpy version (emptyRaises).
MetalsTab3Tab4(emptyRaises) ==
    /\ page = "pages/Metals.py"
    /\ PageOnly
    /\ UNCHANGED rawClose
    /\ pc = "tab3"
    /\ IF ~TwoSeries(data)
         THEN /\ msgs' = msgs \cup {MetalsMsgSpread, MetalsMsgCorr}
              /\ Finish
              /\ UNCHANGED <<computed, charts, spreadStats>>
         ELSE IF DropNa(Spread(data[1], data[2])) = << >> /\ emptyRaises
         THEN /\ Raise("IndexError")
              /\ computed' = computed \cup {"spread"}
              /\ UNCHANGED <<msgs, charts, spreadStats>>
         ELSE /\ spreadStats' = SpreadStats(Spread(data[1], data[2]))
              /\ computed' = computed \cup {"spread", "correlation"}
              /\ IF Cardinality(JointRows(data[1], data[2])) >= 2
                   THEN /\ charts' = charts \cup {"spread", "spread_hist", "correlation"}
                        /\ msgs' = msgs
                   ELSE /\ charts' = charts \cup {"spread", "spread_hist"}
                        /\ msgs' = msgs \cup {MetalsMsgCorrEmpty}
              /\ Finish
    /\ UNCHANGED <<page, start, end, delta_days, interval, fetched, rows, quotes, pct,
                   window_days, rollWindow, selected_labels, selected_tickers, data>>

\* what the live metrics can read for a series
MetalQuoteChoices ==
    { q \in Quotes : q.last_price = 1 } \cup {FailingQuote}

FetchShapes == { "None", "empty", "noClose", "ok" }

MetalsRun ==
    \/ \E names \in NameChoices, custom \in CustomChoices,
          s \in StartChoices, e \in EndChoices : MetalsSelect(names, custom, s, e)
    \/ \E shape \in FetchShapes, multi \in BOOLEAN, n \in {MaxRows} :
          /\ multi \/ Cardinality(Range(selected_tickers)) = 1
          /\ \E closes \in [DownloadedColumns(selected_tickers, multi) -> SeriesChoices(n)] :
                \* a table that is not empty holds a price of some ticker
                /\ HasValue(closes)
                /\ MetalsFetch(shape, multi, n, closes)
    \/ \E qs \in [1..Len(selected_labels) -> MetalQuoteChoices] : MetalsMetrics(qs)
    \/ \E w \in WindowChoices : MetalsTab2(w)
    \/ \E emptyRaises \in BOOLEAN : MetalsTab3Tab4(emptyRaises)

-----------------------------------------------------------------------------
(* pages/Candle Stick Viewer.py: the run of the script *)

CandleMsgNoData == "No data found for this date range."

\* the columns the viewer takes from the download
CandleColumns == { "Open", "High", "Low", "Close", "Volume" }

\* days on which the provider can have a complete bar
TradingDays == { Today - 400, Today - 20, Today - 1, Today }

\* the rows yf.download(start, end) can return: start inclusive, end exclusive
DownloadRange(from, to) == { d \in TradingDays : from <= d /\ d < to }

\* data[(Date >= start) & (Date <= end)]
DisplayRows(dates, s, e) == { d \in dates : s <= d /\ d <= e }

\* Date range (manual inputs).
CandleDates(s, e) ==
    /\ page = "pages/Candle Stick Viewer.py"
    /\ PageOnly
    /\ status = "none"
    /\ ClearRun
    /\ msgs' = {}
    /\ start' = s
    /\ end' = e
    /\ delta_days' = e - s
    /\ Goto("fetch")
    /\ UNCHANGED <<page, interval, selected_labels, selected_tickers>>

\* Download from a year before start, column subset, display filter.
CandleFetch(cols, dates) ==
    /\ page = "pages/Candle Stick Viewer.py"
    /\ PageOnly
    /\ UNCHANGED rawClose
    /\ pc = "fetch"
    /\ dates \subseteq DownloadRange(start - 365, end)
    /\ IF ~(CandleColumns \subseteq cols)
         THEN /\ Raise("KeyError")
              /\ fetched' = "noColumn"
              /\ UNCHANGED <<rows, msgs>>
         ELSE IF DisplayRows(dates, start, end) = {}
         THEN /\ Finish
              /\ fetched' = "empty"
              /\ msgs' = msgs \cup {CandleMsgNoData}
              /\ rows' = 0
         ELSE /\ Goto("quotes")
              /\ fetched' = "ok"
              /\ msgs' = msgs
              /\ rows' = Cardinality(DisplayRows(dates, start, end))
    /\ UNCHANGED <<page, computed, charts, start, end, delta_days, interval, quotes,
                   pct, window_days, rollWindow, selected_labels, selected_tickers,
                   data, spreadStats>>

\* fast_info quote, change_pct and the three metrics.
CandleQuotes(q) ==
    /\ page = "pages/Candle Stick Viewer.py"
    /\ PageOnly
    /\ UNCHANGED rawClose
    /\ pc = "quotes"
    /\ quotes' = <<q>>
    /\ IF DivisionRaises(q)
         THEN /\ Raise("ZeroDivisionError")
              /\ pct' = pct
         ELSE /\ Goto("tabs")
              /\ pct' = <<PctChange(q)>>
    /\ UNCHANGED <<page, msgs, computed, charts, start, end, delta_days, interval,
                   fetched, rows, window_days, rollWindow, selected_labels,
                   selected_tickers, data, spreadStats>>

\* The five tabs and the footer.
CandleTabs ==
    /\ page = "pages/Candle Stick Viewer.py"
    /\ PageOnly
    /\ UNCHANGED rawClose
    /\ pc = "tabs"
    /\ computed' = computed \cup {"EMA20", "EMA50", "EMA200", "volatility", "VaR",
                                  "MA20", "BB_upper", "BB_lower", "RSI"}
    /\ charts' = charts \cup {"candlestick", "ema", "risk", "bollinger", "rsi"}
    /\ Finish
    /\ UNCHANGED <<page, msgs, start, end, delta_days, interval, fetched, rows, quotes,
                   pct, window_days, rollWindow, selected_labels, selected_tickers,
                   data, spreadStats>>

CandleRun ==
    \/ \E s \in StartChoices, e \in EndChoices : CandleDates(s, e)
    \/ \E missing \in SUBSET {"Close", "Volume"}, dates \in SUBSET TradingDays :
          CandleFetch(CandleColumns \ missing, dates)
    \/ \E q \in Quotes : CandleQuotes(q)
    \/ CandleTabs

-----------------------------------------------------------------------------
(* pages/Candle Stick Viewer.py: the Bollinger and RSI columns.  Prices are  *)
(* integers and the columns are kept as exact ratios, so rounding of the     *)
(* floating-point rolling sums is not part of the model.                     *)

\* most rows of the extended table
MaxIndRows == 21

\* most changes of the day-to-day move along the close series
MaxTurns == 1

\* close of the first row
BasePrice == 30

\* window = 20
BBWindow == 20

\* rolling(14)
RSIPeriod == 14

\* a cell of a column that holds NaN
NaNCell == [nan |-> TRUE, num |-> 0, den |-> 1]

\* a cell that holds num/den
Cell(n, d) == [nan |-> FALSE, num |-> n, den |-> d]

\* day-to-day moves of the close
Steps == { -1, 0, 1 }

\* number of changes of direction of a close series
Turns(close) ==
    Cardinality({ r \in 3..Len(close) :
                    close[r] - close[r - 1] # close[r - 1] - close[r - 2] })

RECURSIVE SumOver(_, _, _)
\* f[lo] + ... + f[hi]
SumOver(f, lo, hi) == IF lo > hi THEN 0 ELSE f[hi] + SumOver(f, lo, hi - 1)

\* Series.diff(): NaN in the first row
Diff(close, r) == IF r = 1 THEN NaN ELSE close[r] - close[r - 1]

\* the gain taken from the falling days
GainTermFalling(close, r) ==
    IF ~IsNaN(Diff(close, r)) /\ Diff(close, r) < 0 THEN 0 - Diff(close, r) ELSE 0

\* delta.where(delta > 0, 0): a NaN delta fails the test and becomes 0
GainTerm(close, r) ==
    IF ~IsNaN(Diff(close, r)) /\ Diff(close, r) > 0 THEN Diff(close, r) ELSE 0

\* the loss without its minus sign
LossTermSigned(close, r) ==
    IF ~IsNaN(Diff(close, r)) /\ Diff(close, r) < 0 THEN Diff(close, r) ELSE 0

\* -delta.where(delta < 0, 0)
LossTerm(close, r) ==
    IF ~IsNaN(Diff(close, r)) /\ Diff(close, r) < 0 THEN 0 - Diff(close, r) ELSE 0

\* rolling(14): a value needs 14 rows
RollingFull(i, w) == i >= w

\* sum of the terms of the window ending at row i
GainSum(close, i) ==
    SumOver([r \in 1..Len(close) |-> GainTerm(close, r)], i - RSIPeriod + 1, i)

LossSum(close, i) ==
    SumOver([r \in 1..Len(close) |-> LossTerm(close, r)], i - RSIPeriod + 1, i)

\* rs = gain / loss and RSI = 100 - 100 / (1 + rs) in float arithmetic:
\* 0/0 is NaN, x/0 is inf and gives 100
RSI(close, i) ==
    IF ~RollingFull(i, RSIPeriod) THEN NaNCell
    ELSE IF GainSum(close, i) = 0 /\ LossSum(close, i) = 0 THEN NaNCell
    ELSE IF LossSum(close, i) = 0 THEN Cell(100, 1)
    ELSE Cell(100 * (LossSum(close, i) + GainSum(close, i)) - 100 * LossSum(close, i),
              LossSum(close, i) + GainSum(close, i))

\* sum of the closes of the window ending at row i
WindowSum(close, i) == SumOver(close, i - BBWindow + 1, i)

\* sum of the squared closes of the window ending at row i
WindowSumSq(close, i) ==
    SumOver([r \in 1..Len(close) |-> close[r] * close[r]], i - BBWindow + 1, i)

\* data["Close"].rolling(window).mean(), as a ratio over the window length
MA20(close, i) ==
    IF ~RollingFull(i, BBWindow) THEN NaNCell
    ELSE Cell(WindowSum(close, i), BBWindow)

\* data["Close"].rolling(window).std() squared, times window * (window - 1)
\* (sample variance, ddof = 1)
VarTimes(close, i) ==
    BBWindow * WindowSumSq(close, i) - WindowSum(close, i) * WindowSum(close, i)

\* MA20 + coef * std: the value mean/window + coef * sqrt(var / (window * (window - 1)))
Band(close, i, coef) ==
    IF ~RollingFull(i, BBWindow)
      THEN [nan |-> TRUE, mean |-> 0, coef |-> coef, var |-> 0]
      ELSE [nan |-> FALSE, mean |-> WindowSum(close, i), coef |-> coef,
            var |-> VarTimes(close, i)]

\* the upper band with the sign of the deviation flipped
BB_upperFlipped(close, i) == Band(close, i, 0 - 2)

\* data["MA20"] + 2 * std
BB_upper(close, i) == Band(close, i, 2)

\* data["MA20"] - 2 * std
BB_lower(close, i) == Band(close, i, 0 - 2)

\* x/window <= band, for a band that is not NaN
LeBand(x, b) ==
    LET d == x - b.mean
        lhs == d * d * (BBWindow - 1)
        rhs == b.coef * b.coef * b.var * BBWindow
    IN  IF b.coef >= 0 THEN d <= 0 \/ lhs <= rhs
        ELSE d <= 0 /\ lhs >= rhs

\* band <= x/window, for a band that is not NaN
BandLe(b, x) ==
    LET d == x - b.mean
        lhs == d * d * (BBWindow - 1)
        rhs == b.coef * b.coef * b.var * BBWindow
    IN  IF b.coef >= 0 THEN d >= 0 /\ lhs >= rhs
        ELSE d >= 0 \/ lhs <= rhs

\* one more row of the downloaded table
DownloadRow(p) ==
    /\ indPc = "download"
    /\ Len(Close) < MaxIndRows
    /\ Close = << >> => p = BasePrice
    /\ Close # << >> => p - Close[Len(Close)] \in Steps
    /\ Turns(Append(Close, p)) <= MaxTurns
    /\ Close' = Append(Close, p)
    /\ UNCHANGED <<indPc, BB, RSIcol, pageVars, emaVars, sessVars>>

\* Tab 4: the MA20, BB_upper and BB_lower columns.
CandleTab4 ==
    /\ indPc = "download"
    /\ Close # << >>
    /\ BB' = [i \in 1..Len(Close) |->
                [ma |-> MA20(Close, i), upper |-> BB_upper(Close, i),
                 lower |-> BB_lower(Close, i)]]
    /\ indPc' = "tab5"
    /\ UNCHANGED <<Close, RSIcol, pageVars, emaVars, sessVars>>

\* Tab 5: the RSI column.
CandleTab5 ==
    /\ indPc = "tab5"
    /\ RSIcol' = [i \in 1..Len(Close) |-> RSI(Close, i)]
    /\ indPc' = "done"
    /\ UNCHANGED <<Close, BB, pageVars, emaVars, sessVars>>

IndNext ==
    \/ \E p \in (BasePrice - MaxIndRows)..(BasePrice + MaxIndRows) : DownloadRow(p)
    \/ CandleTab4
    \/ CandleTab5

-----------------------------------------------------------------------------
(* The session *)

Init ==
    /\ page = "Welcome.py"
    /\ status = "none"
    /\ pc = "idle"
    /\ exc = "none"
    /\ msgs = {}
    /\ computed = {}
    /\ charts = {}
    /\ start = Today - 365
    /\ end = Today
    /\ delta_days = 365
    /\ interval = "1d"
    /\ fetched = "none"
    /\ rows = 0
    /\ quotes = NoPct
    /\ pct = NoPct
    /\ window_days = 0
    /\ rollWindow = 0
    /\ selected_labels = << >>
    /\ selected_tickers = << >>
    /\ data = NoData
    /\ spreadStats = NoStats
    /\ rawClose = NoData
    /\ Close = << >>
    /\ indPc = "download"
    /\ BB = << >>
    /\ RSIcol = << >>
    /\ emaClose = << >>
    /\ EMA = << >>
    /\ event = NoEvent
    /\ sessPage = "none"
    /\ custom_mode = "absent"
    /\ selected_commodity = "absent"
    /\ custom_text = ""
    /\ textShown = FALSE
    /\ cmAtInput = "absent"
    /\ selected = "none"
    /\ lastButton = "none"
    /\ manual_start = NoDate
    /\ manual_end = NoDate
    /\ active_preset = "absent"
    /\ fetchStart = NoDate
    /\ fetchEnd = NoDate
    /\ presetCleared = FALSE
    /\ widgetsDrawn = FALSE
    /\ selected_names = <<"Gold">>
    /\ lastPreset = "none"

\* A user interaction reruns the script of the page from the top: the output and
\* the script variables of the last run are dropped.
Rerun ==
    /\ status \in {"done", "stopped", "error"}
    /\ PageOnly
    /\ ClearRun
    /\ msgs' = {}
    /\ status' = "none"
    /\ pc' = "idle"
    /\ exc' = "none"
    /\ start' = Today - 365
    /\ end' = Today
    /\ delta_days' = 365
    /\ interval' = "1d"
    /\ selected_labels' = << >>
    /\ selected_tickers' = << >>
    /\ UNCHANGED page

Next ==
    \/ \E b \in NavButtons : PressNav(b)
    \/ Rerun
    \/ CandleRun
    \/ OilRun
    \/ MetalsRun

vars == <<pageVars, indVars, emaVars, sessVars>>

Spec == Init /\ [][Next]_vars

\* the Bollinger and RSI tabs over a downloaded close series
SpecInd == Init /\ [][IndNext]_vars

-----------------------------------------------------------------------------
(* Properties of the page runs (specification Spec) *)

Finished == status \in {"done", "stopped", "error"}

DataPages == { "pages/Candle Stick Viewer.py", "pages/Metals.py", "pages/Oil.py" }

\* C1: on every data page, a quote whose previous close is zero yields NaN for
\* the percentage change of that series, and the run does not end in an
\* unhandled ZeroDivisionError.
C1_ZeroPrevCloseGivesNaN ==
    page \in DataPages =>
        \A l \in DOMAIN quotes :
            (quotes[l].ok /\ quotes[l].previous_close = 0) =>
                /\ exc # "ZeroDivisionError"
                /\ l \in DOMAIN pct
                /\ pct[l] = PctNaN

\* every quote read in the run has a previous close other than zero
NoZeroPrevClose == \A l \in DOMAIN quotes : quotes[l].previous_close # 0

\* C2: on each data page, a run whose fetch returned an empty result set ends
\* with a user-visible message, without an unhandled error, and computes no
\* indicator and draws no chart (runs that read a zero previous close are the
\* case of C1 and are left aside).
C2_EmptyFetchEndsWithMessage ==
    (page \in DataPages /\ fetched \in {"None", "empty"} /\ NoZeroPrevClose) =>
        /\ computed = {}
        /\ charts = {}
        /\ Finished => (status # "error" /\ msgs # {})

\* C3: on each data page, a run whose downloaded table lacks an expected
\* column shows a user-visible message and stops; it does not end in an
\* unhandled error.
C3_MissingColumnShowsMessage ==
    (page \in DataPages /\ fetched \in {"noClose", "noColumn"} /\ Finished) =>
        /\ status # "error"
        /\ msgs # {}

\* the Rolling Mean & Std tab has been run: the window has been read
Tab2Ran == page \in {"pages/Metals.py", "pages/Oil.py"} /\ window_days # 0

WindowMsgs == { MetalsMsgWindow, OilMsgWindow }

\* C4: on Metals and Oil, once the Rolling Mean & Std tab has run: if the
\* range in days is smaller than the window the tab shows its error message
\* and no rolling mean or std is computed or plotted; otherwise both are
\* computed with a window of exactly window_days days.
C4_RollingWindowGuard ==
    Tab2Ran =>
        IF delta_days < window_days
          THEN /\ msgs \cap WindowMsgs # {}
               /\ rollWindow = 0
               /\ computed \cap {"roll_mean", "roll_std"} = {}
               /\ "rolling" \notin charts
          ELSE /\ msgs \cap WindowMsgs = {}
               /\ rollWindow = window_days
               /\ {"roll_mean", "roll_std"} \subseteq computed

\* C4 witness: a Metals run with a range shorter than the window showed the message.
C4_Witness ==
    /\ page = "pages/Metals.py"
    /\ window_days # 0
    /\ delta_days < window_days
    /\ MetalsMsgWindow \in msgs
    /\ status = "done"

\* the run of Metals.py reached the Spread tab
MetalsTabsRan ==
    /\ page = "pages/Metals.py"
    /\ status = "done" \/ (status = "error" /\ exc = "IndexError")

\* C9: on Metals, the spread and the rolling correlation are computed exactly
\* when the working table has two series; otherwise both tabs show their info
\* message and compute nothing; a computed spread is reported with its
\* current value, mean, 5th and 95th percentile, 5th <= 95th.
C9_SpreadOnlyForTwoSeries ==
    MetalsTabsRan =>
        /\ spreadStats.shown <=> Len(data) = 2
        /\ "correlation" \in computed <=> Len(data) = 2
        /\ Len(data) # 2 =>
              /\ {MetalsMsgSpread, MetalsMsgCorr} \subseteq msgs
              /\ computed \cap {"spread", "correlation"} = {}
        /\ spreadStats.shown =>
              /\ ~IsNaN(spreadStats.p5)
              /\ ~IsNaN(spreadStats.p95)
              /\ spreadStats.p5 <= spreadStats.p95

\* C10: no press of a navigation button of the landing page leads to a
\* missing page.
C10_NavigationTargetsExist ==
    exc # "StreamlitAPIException"

-----------------------------------------------------------------------------
(* pages/Candle Stick Viewer.py: the EMA columns of tab 2, kept as exact     *)
(* ratios num/den of integers.                                               *)

\* most rows of the extended table
MaxEmaRows == 3

\* highest close
MaxEmaPrice == 4

\* span=20, span=50, span=200
Spans == {20, 50, 200}

RECURSIVE Pow(_, _)
Pow(b, e) == IF e = 0 THEN 1 ELSE b * Pow(b, e - 1)

RECURSIVE EwmAdjusted(_, _, _)
\* the average that adjust=True computes: weights (1-a)^k, normalised by their sum
EwmAdjusted(close, span, i) ==
    IF i = 1 THEN [num |-> close[1], den |-> 1]
    ELSE LET prev == EwmAdjusted(close, span, i - 1)
         IN  [num |-> close[i] * Pow(span + 1, i - 1) + (span - 1) * prev.num,
              den |-> Pow(span + 1, i - 1) + (span - 1) * prev.den]

RECURSIVE Ewm(_, _, _)
\* Series.ewm(span=span, adjust=False).mean() at row i:
\* y_1 = x_1, y_t = (1 - a) * y_(t-1) + a * x_t with a = 2 / (span + 1)
Ewm(close, span, i) ==
    IF i = 1 THEN [num |-> close[1], den |-> 1]
    ELSE LET prev == Ewm(close, span, i - 1)
         IN  [num |-> 2 * close[i] * prev.den + (span - 1) * prev.num,
              den |-> (span + 1) * prev.den]

\* yf.download appends one more row to the extended table
EmaDownloadRow(p) ==
    /\ EMA = <<>>
    /\ Len(emaClose) < MaxEmaRows
    /\ emaClose' = Append(emaClose, p)
    /\ UNCHANGED <<pageVars, indVars, sessVars, EMA>>

\* tab 2 writes the columns EMA20, EMA50 and EMA200
CandleTab2 ==
    /\ EMA = <<>>
    /\ Len(emaClose) >= 1
    /\ EMA' = [span \in Spans |->
                 [i \in 1..Len(emaClose) |-> Ewm(emaClose, span, i)]]
    /\ UNCHANGED <<pageVars, indVars, sessVars, emaClose>>

EmaNext ==
    \/ \E p \in 1..MaxEmaPrice : EmaDownloadRow(p)
    \/ CandleTab2

SpecEMA == Init /\ [][EmaNext]_vars

-----------------------------------------------------------------------------
(* pages/Candle Stick Viewer.py: the ticker row and the date range over the  *)
(* reruns of one session.  Both are decided before the fetch, so the session *)
(* state they leave does not depend on how the rest of the run ends.         *)

CandlePage == "pages/Candle Stick Viewer.py"

\* the commodities dictionary
commodities(name) ==
    CASE name = "Brent Crude" -> "BZ=F"
      [] name = "WTI Crude"   -> "CL=F"
      [] name = "Gold"        -> "GC=F"
      [] name = "Silver"      -> "SI=F"
      [] name = "Platinum"    -> "PL=F"
      [] name = "Copper"      -> "HG=F"
      [] name = "Wheat"       -> "ZW=F"
      [] name = "Corn"        -> "ZC=F"
      [] name = "Natural Gas" -> "NG=F"

\* the named buttons the user presses: the first, one in the middle, the last
NamedPressed == { "Brent Crude", "Gold", "Natural Gas" }

\* texts typed into the custom ticker input
TextChoices == { "", "aapl", "CL=F" }

\* str.upper
Upper(t) == CASE t = "aapl" -> "AAPL" [] OTHER -> t

\* the presets dictionary
PresetLabels == { "1M", "6M", "YTD", "1Y", "5Y" }

\* datetime.date(today.year, 1, 1), today being 6 November
YearStart == Today - 309

presets(label) ==
    CASE label = "1M"  -> Today - 30
      [] label = "6M"  -> Today - 182
      [] label = "YTD" -> YearStart
      [] label = "1Y"  -> Today - 365
      [] label = "5Y"  -> Today - 365 * 5

\* dates typed into the date widgets of the Candlestick Viewer
CandleStartEdits == { Today - 30, Today - 8 }
CandleEndEdits == { Today - 1, Today }

IsNamed(ev) == ev.kind = "button" /\ ev.name # "Custom Ticker"

\* the Custom Ticker button: st.session_state["custom_mode"] = True
CustomAfterButton(ev, cm) ==
    IF ev.kind = "button" /\ ev.name = "Custom Ticker" THEN "true" ELSE cm

\* a lookup that defaults to True
GetCustomModeDefaultTrue(cm) == cm # "false"

\* st.session_state.get("custom_mode", False)
GetCustomMode(cm) == cm = "true"

\* the named button loop without custom_mode = False
CustomModeKept(ev, cm) == CustomAfterButton(ev, cm)

\* custom_mode at the end of the run
CustomModeAfter(ev, cm) ==
    IF IsNamed(ev) THEN "false" ELSE CustomAfterButton(ev, cm)

\* st.session_state["selected_commodity"] at the end of the run
StoredAfter(ev, shown, text, stored) ==
    IF IsNamed(ev) THEN commodities(ev.name)
    ELSE IF shown /\ text # "" THEN Upper(text)
    ELSE stored

\* the custom text taken after the named buttons
SelectedTickerTextLast(ev, shown, text, stored) ==
    IF shown /\ text # "" THEN Upper(text)
    ELSE IF IsNamed(ev) THEN commodities(ev.name)
    ELSE IF stored # "absent" THEN stored
    ELSE "BZ=F"

\* selected, as passed to the fetch
SelectedTicker(ev, shown, text, stored) ==
    LET fromText == IF shown /\ text # "" THEN Upper(text) ELSE "None"
        fromButton == IF IsNamed(ev) THEN commodities(ev.name) ELSE fromText
        inSession == StoredAfter(ev, shown, text, stored)
        fromSession == IF inSession # "absent" /\ fromButton = "None"
                         THEN inSession ELSE fromButton
    IN  IF fromSession = "None" THEN "BZ=F" ELSE fromSession

\* the interactions the Candlestick Viewer offers
CandleEvents ==
    { Ev("open", "", NoDate) }
      \cup { Ev("button", n, NoDate) : n \in NamedPressed \cup {"Custom Ticker"} }
      \cup { Ev("text", t, NoDate) : t \in TextChoices }
      \cup { Ev("preset", l, NoDate) : l \in PresetLabels }
      \cup { Ev("start", "", d) : d \in CandleStartEdits }
      \cup { Ev("end", "", d) : d \in CandleEndEdits }

\* what the user can do next: anything but loading the page needs the page on
\* screen, typing needs the text input on screen, an edit changes the value
CandleOffered(ev) ==
    /\ ev.kind # "open" => selected # "none"
    /\ ev.kind = "text" => textShown /\ ev.name # custom_text
    /\ ev.kind = "start" => ev.day # manual_start
    /\ ev.kind = "end" => ev.day # manual_end

\* One run of the script up to the fetch, caused by interaction ev.
CandleSession(ev) ==
    LET cm == CustomAfterButton(ev, custom_mode)
        shown == GetCustomMode(cm)
        typed == IF ev.kind = "text" THEN ev.name ELSE custom_text
        \* a text input that is not drawn loses its value
        text == IF shown THEN typed ELSE ""
        \* the date widgets: the edited value, the kept value, or the default
        ms == IF ev.kind = "start" THEN ev.day
              ELSE IF manual_start = NoDate THEN Today - 183 ELSE manual_start
        me == IF ev.kind = "end" THEN ev.day
              ELSE IF manual_end = NoDate THEN Today ELSE manual_end
        preset == ev.kind = "preset"
        st == IF preset THEN presets(ev.name) ELSE ms
        en == IF preset THEN Today ELSE me
        cleared == st # ms \/ en # me
    IN  /\ sessPage \in {"none", CandlePage}
        /\ CandleOffered(ev)
        /\ sessPage' = CandlePage
        /\ event' = ev
        /\ cmAtInput' = cm
        /\ textShown' = shown
        /\ custom_text' = text
        /\ selected' = SelectedTicker(ev, shown, text, selected_commodity)
        /\ selected_commodity' = StoredAfter(ev, shown, text, selected_commodity)
        /\ custom_mode' = CustomModeAfter(ev, custom_mode)
        /\ lastButton' = IF IsNamed(ev) THEN "named"
                         ELSE IF ev.kind = "button" THEN "custom"
                         ELSE lastButton
        /\ manual_start' = ms
        /\ manual_end' = me
        /\ fetchStart' = st
        /\ fetchEnd' = en
        /\ presetCleared' = cleared
        /\ active_preset' = IF cleared THEN "None"
                            ELSE IF preset THEN ev.name
                            ELSE active_preset
        /\ widgetsDrawn' = TRUE
        /\ lastPreset' = IF preset THEN ev.name
                         ELSE IF ev.kind \in {"start", "end"} THEN "none"
                         ELSE lastPreset
        /\ UNCHANGED <<pageVars, indVars, emaVars, selected_names>>

CandleSessionNext == \E ev \in CandleEvents : CandleSession(ev)

SpecCandleSession == Init /\ [][CandleSessionNext]_vars

-----------------------------------------------------------------------------
(* pages/Metals.py and pages/Oil.py: the date range over the reruns of one   *)
(* session.  The date widgets are keyed by manual_start and manual_end; a    *)
(* keyed widget that a run does not draw loses its session-state entry at    *)
(* the end of that run.                                                      *)

\* the interactions with the selection and the date range
DateEvents ==
    { Ev("open", "", NoDate) }
      \cup { Ev("select", n, NoDate) : n \in {"", "Gold"} }
      \cup { Ev("preset", l, NoDate) : l \in PresetLabels }
      \cup { Ev("start", "", d) : d \in StartChoices }
      \cup { Ev("end", "", d) : d \in EndChoices }

\* the multiselect after the interaction
NamesAfter(ev, names) ==
    IF ev.kind # "select" THEN names
    ELSE IF ev.name = "" THEN << >> ELSE <<ev.name>>

\* what the user can do next on page pg
DatesOffered(pg, ev) ==
    /\ ev.kind # "open" => sessPage = pg
    /\ ev.kind = "select" => pg = "pages/Metals.py" /\ NamesAfter(ev, selected_names) # selected_names
    /\ ev.kind \in {"preset", "start", "end"} => widgetsDrawn
    /\ ev.kind = "start" => ev.day # manual_start
    /\ ev.kind = "end" => ev.day # manual_end

\* Metals.py stops before the sidebar when nothing is selected
DatesDrawn(pg, names) == pg = "pages/Oil.py" \/ Len(names) > 0

\* One run of Metals.py or Oil.py up to the fetch, caused by interaction ev.
DatesSession(pg, ev) ==
    LET names == NamesAfter(ev, selected_names)
        drawn == DatesDrawn(pg, names)
        \* the value sent by the browser, else the session state, initialised once
        ms == IF ev.kind = "start" THEN ev.day
              ELSE IF manual_start = NoDate THEN Today - 365 ELSE manual_start
        me == IF ev.kind = "end" THEN ev.day
              ELSE IF manual_end = NoDate THEN Today ELSE manual_end
        preset == ev.kind = "preset"
        st == IF preset THEN presets(ev.name) ELSE ms
        en == IF preset THEN Today ELSE me
    IN  /\ sessPage \in {"none", pg}
        /\ DatesOffered(pg, ev)
        /\ sessPage' = pg
        /\ event' = ev
        /\ selected_names' = names
        /\ widgetsDrawn' = drawn
        /\ manual_start' = IF drawn THEN st ELSE NoDate
        /\ manual_end' = IF drawn THEN en ELSE NoDate
        /\ fetchStart' = IF drawn THEN st ELSE NoDate
        /\ fetchEnd' = IF drawn THEN en ELSE NoDate
        /\ active_preset' = IF drawn /\ preset THEN ev.name ELSE active_preset
        /\ lastPreset' = IF preset THEN ev.name
                         ELSE IF ev.kind \in {"start", "end"} THEN "none"
                         ELSE lastPreset
        /\ UNCHANGED <<pageVars, indVars, emaVars, tickerVars, presetCleared>>

DatesNext ==
    \E pg \in {"pages/Metals.py", "pages/Oil.py"} : \E ev \in DateEvents :
        DatesSession(pg, ev)

SpecDates == Init /\ [][DatesNext]_vars

-----------------------------------------------------------------------------
(* Properties of the Bollinger and RSI columns (specification SpecInd) *)

\* an RSI cell is NaN or a value in [0, 100]
InRange(c) == c.nan \/ (c.den > 0 /\ 0 <= c.num /\ c.num <= 100 * c.den)

\* the closes that enter the RSI of row i are all equal
FlatWindow(close, i) ==
    \A r \in 1..i : r >= i - RSIPeriod => close[r] = close[i]

\* C5 (as claimed): every RSI value is NaN or in [0, 100], and it is NaN exactly
\* when fewer than 14 price differences are available at its row or the 14-period
\* average gain and loss are both zero.
C5_RsiNaNBelow14Differences ==
    indPc = "done" =>
        \A i \in 1..Len(Close) :
            /\ InRange(RSIcol[i])
            /\ RSIcol[i].nan <=> (i - 1 < 14 \/ FlatWindow(Close, i))

\* C5 (amended): every RSI value is NaN or in [0, 100], and it is NaN exactly
\* when fewer than 14 rows are available (13 price differences: the missing
\* difference of the first row counts as a zero move) or the closes of the
\* window are all equal.
C5_RsiRangeAndNaN ==
    indPc = "done" =>
        \A i \in 1..Len(Close) :
            /\ InRange(RSIcol[i])
            /\ RSIcol[i].nan <=> (i < 14 \/ FlatWindow(Close, i))

\* C5 witness: the 14th row holds an RSI value, a later row with a flat window is NaN.
C5_Witness ==
    /\ indPc = "done"
    /\ Len(Close) > 14
    /\ ~RSIcol[14].nan
    /\ \E i \in 15..Len(Close) : RSIcol[i].nan

\* the close rose on each of the 14 differences that end at row i
RisingWindow(close, i) ==
    /\ i > RSIPeriod
    /\ \A r \in 2..i : r > i - RSIPeriod => close[r] > close[r - 1]

\* C6: where the close rose on every one of the 14 differences of a full
\* window, the RSI at the end of the window is 100.
C6_RisingWindowGives100 ==
    indPc = "done" =>
        \A i \in 1..Len(Close) :
            RisingWindow(Close, i) =>
                /\ ~RSIcol[i].nan
                /\ RSIcol[i].num = 100 * RSIcol[i].den

\* C6 witness: a finished RSI column with a rising full window.
C6_Witness ==
    /\ indPc = "done"
    /\ \E i \in 1..Len(Close) : RisingWindow(Close, i) /\ ~RSIcol[i].nan

BBDone == indPc \in {"tab5", "done"}

\* C7 (as claimed): on every row with a full 20-period window and a positive
\* standard deviation, lower band <= close <= upper band.
C7_BandsBracketClose ==
    BBDone =>
        \A i \in 1..Len(Close) :
            (~BB[i].ma.nan /\ BB[i].upper.var > 0) =>
                /\ BandLe(BB[i].lower, BBWindow * Close[i])
                /\ LeBand(BBWindow * Close[i], BB[i].upper)

\* C7 (amended): the bands are NaN exactly on the rows without a full 20-period
\* window; on the other rows they lie at the same distance (twice the
\* standard deviation) on either side of the 20-period moving average,
\* lower <= MA20 <= upper, strictly when the standard deviation is positive.
C7_BandsBracketAverage ==
    BBDone =>
        \A i \in 1..Len(Close) :
            /\ BB[i].upper.nan <=> i < 20
            /\ BB[i].lower.nan <=> i < 20
            /\ BB[i].ma.nan <=> i < 20
            /\ ~BB[i].ma.nan =>
                  /\ BB[i].upper.mean = BB[i].ma.num
                  /\ BB[i].lower.mean = BB[i].ma.num
                  /\ BB[i].upper.var = BB[i].lower.var
                  /\ BB[i].upper.coef = 0 - BB[i].lower.coef
                  /\ BandLe(BB[i].lower, BB[i].ma.num)
                  /\ LeBand(BB[i].ma.num, BB[i].upper)
                  /\ BB[i].upper.var > 0 =>
                        /\ ~BandLe(BB[i].upper, BB[i].ma.num)
                        /\ ~LeBand(BB[i].ma.num, BB[i].lower)

\* C7 witness: a row with a full window and a positive standard deviation
\* whose close lies above the upper band.
C7_Witness ==
    /\ BBDone
    /\ \E i \in 1..Len(Close) :
          /\ ~BB[i].ma.nan
          /\ BB[i].upper.var > 0
          /\ ~LeBand(BBWindow * Close[i], BB[i].upper)

-----------------------------------------------------------------------------
(* Properties of the EMA columns (specification SpecEMA) *)

EmaDone == EMA # <<>>

\* smallest and largest close of rows 1..i
MinClose(close, i) == CHOOSE m \in {close[r] : r \in 1..i} :
                          \A r \in 1..i : m <= close[r]
MaxClose(close, i) == CHOOSE m \in {close[r] : r \in 1..i} :
                          \A r \in 1..i : m >= close[r]

\* C8: each EMA column (spans 20, 50, 200) starts at the first close of the
\* extended series and every later value is a*close_t + (1-a)*EMA_(t-1) with
\* a = 2/(span+1); every value lies between the smallest and the largest close
\* seen so far, and a constant close series gives a constant EMA equal to it.
C8_EmaRecursion ==
    EmaDone =>
        /\ DOMAIN EMA = {20, 50, 200}
        /\ \A span \in DOMAIN EMA :
              /\ Len(EMA[span]) = Len(emaClose)
              /\ EMA[span][1].num = emaClose[1] * EMA[span][1].den
              /\ \A i \in 1..Len(emaClose) :
                    LET y == EMA[span][i]
                    IN  /\ y.den > 0
                        /\ MinClose(emaClose, i) * y.den <= y.num
                        /\ y.num <= MaxClose(emaClose, i) * y.den
                        /\ MinClose(emaClose, i) = MaxClose(emaClose, i)
                              => y.num = emaClose[1] * y.den
                        /\ i > 1 =>
                              \* (span+1) * y = 2 * close_t + (span-1) * y_(t-1)
                              LET prev == EMA[span][i - 1]
                              IN  /\ y.den = (span + 1) * prev.den
                                  /\ y.num = 2 * emaClose[i] * prev.den
                                              + (span - 1) * prev.num

\* C8 witness: EMA columns over a series that is not constant, with a value
\* strictly between its smallest and largest close.
C8_Witness ==
    /\ EmaDone
    /\ Len(emaClose) >= 2
    /\ \E span \in DOMAIN EMA : \E i \in 2..Len(emaClose) :
          /\ MinClose(emaClose, i) * EMA[span][i].den < EMA[span][i].num
          /\ EMA[span][i].num < MaxClose(emaClose, i) * EMA[span][i].den

-----------------------------------------------------------------------------
(* Properties of the date range of Metals.py and Oil.py (specification Spec) *)

\* the run has read the date widgets and chosen the interval
DatesRead ==
    /\ page \in {"pages/Metals.py", "pages/Oil.py"}
    /\ status # "none"
    /\ MetalsMsgSelect \notin msgs

\* C11: on Metals and Oil the fetch interval is a function of
\* delta_days = (end - start).days alone: "1m" exactly when delta_days <= 7
\* (zero and negative ranges included), "15m" exactly when 8 <= delta_days <= 60,
\* "1d" exactly when delta_days > 60; both pages choose the same interval for
\* the same dates.
C11_IntervalByRange ==
    DatesRead =>
        /\ delta_days = end - start
        /\ interval \in {"1m", "15m", "1d"}
        /\ interval = "1m" <=> delta_days <= 7
        /\ interval = "15m" <=> (8 <= delta_days /\ delta_days <= 60)
        /\ interval = "1d" <=> delta_days > 60
        /\ Interval(delta_days) = OilInterval(delta_days)

\* C11 witness: a Metals run over exactly 7 days, end after start, fetching "1m".
C11_Witness ==
    /\ DatesRead
    /\ page = "pages/Metals.py"
    /\ delta_days = 7
    /\ interval = "1m"

\* a run with the end date before the start date
C11_NegativeRange == DatesRead /\ delta_days < 0 /\ interval = "1m"

-----------------------------------------------------------------------------
(* Properties of the working table of Metals.py (specification Spec) *)

\* the rename and reorder step has built the working table in this run
TableBuilt == page = "pages/Metals.py" /\ data # NoData

\* the close series the download returned for ticker t
DownloadedSeries(t) ==
    IF t \in DOMAIN rawClose THEN rawClose[t] ELSE rawClose["Close"]

\* C16: after the rename and reorder step the working table has exactly one
\* column per entry of selected_labels, in selection order; the column of each
\* label holds the downloaded close series of the ticker paired with that
\* label, and a column is all-NaN only when its ticker returned no data; for
\* every combination of selected metals and custom tickers, a custom ticker
\* equal to the ticker of a selected metal included.
C16_ColumnsHoldTheirTicker ==
    TableBuilt =>
        /\ Len(data) = Len(selected_labels)
        /\ \A i \in 1..Len(selected_labels) :
              /\ data[i] = DownloadedSeries(selected_tickers[i])
              /\ data[i] = NaNSeries(rows)
                    => DownloadedSeries(selected_tickers[i]) = NaNSeries(rows)

\* the same, for downloads that come back with a ticker level only
C16_WithTickerLevel ==
    (TableBuilt /\ "Close" \notin DOMAIN rawClose) =>
        \A i \in 1..Len(selected_labels) :
            data[i] = DownloadedSeries(selected_tickers[i])

-----------------------------------------------------------------------------
(* Properties of the ticker row and the presets of the Candlestick Viewer    *)
(* (specification SpecCandleSession); every step is one run of the script    *)

\* the custom text read in the run that ends in the primed state determines the ticker
TextDecides == cmAtInput' = "true" /\ custom_text' # ""

\* C12: after any sequence of reruns the ticker passed to the fetch is never
\* None and is, in this order of priority: the ticker of the named button
\* pressed in this run; else the upper-cased non-empty custom text when custom
\* mode is active; else the ticker stored under selected_commodity; else "BZ=F".
\* Whenever a button or a non-empty custom text determines the ticker, the same
\* value is stored in selected_commodity.
C12_TickerPriority ==
    [][ /\ selected' \notin {"None", "none", "absent", ""}
        /\ selected' = IF IsNamed(event') THEN commodities(event'.name)
                       ELSE IF TextDecides THEN Upper(custom_text')
                       ELSE IF selected_commodity # "absent" THEN selected_commodity
                       ELSE "BZ=F"
        /\ (IsNamed(event') \/ TextDecides) => selected_commodity' = selected' ]_vars

\* C12 witness: a named button pressed while a custom text is in the input:
\* the button's ticker is fetched and stored.
C12_Witness ==
    /\ IsNamed(event)
    /\ textShown
    /\ custom_text = "aapl"
    /\ selected = commodities(event.name)
    /\ selected_commodity = selected

\* C13: custom_mode is true at the end of a run exactly when the Custom Ticker
\* button has been pressed more recently than any named commodity button; the
\* custom text input is shown only in runs where custom_mode is true at that
\* point; pressing Custom Ticker while the text input is empty leaves the
\* stored selected_commodity and the fetched ticker unchanged.
C13_CustomMode ==
    [][ /\ custom_mode' = "true" <=> lastButton' = "custom"
        /\ textShown' => cmAtInput' = "true"
        /\ (event' = Ev("button", "Custom Ticker", NoDate) /\ custom_text' = "")
              => /\ selected_commodity' = selected_commodity
                 /\ selected' = selected ]_vars

\* C13 witness: Custom Ticker pressed after Gold with an empty text input:
\* custom mode is on, the input is shown and Gold is still the ticker.
C13_Witness ==
    /\ event = Ev("button", "Custom Ticker", NoDate)
    /\ custom_mode = "true"
    /\ lastButton = "custom"
    /\ textShown
    /\ custom_text = ""
    /\ selected = "GC=F"
    /\ selected_commodity = "GC=F"

\* C14: at the end of a run in which a preset button is pressed, active_preset
\* equals that preset's label and the fetch uses start = the preset start and
\* end = today; active_preset is reset to None only in runs where the manual
\* dates were changed.
C14_PresetKeepsLabel ==
    /\ event.kind = "preset" =>
          /\ active_preset = event.name
          /\ fetchStart = presets(event.name)
          /\ fetchEnd = Today
    /\ presetCleared => event.kind \in {"start", "end"}

-----------------------------------------------------------------------------
(* Properties of the presets of Metals.py and Oil.py (specification SpecDates) *)

\* C15: on Metals and Oil, pressing a preset writes manual_start = the preset
\* start and manual_end = today before the date widgets are read, so the start
\* and end used for the fetch in that run equal the preset range, and they stay
\* equal to it on every later rerun that fetches until the user edits a date
\* widget or presses another preset.
C15_PresetRangePersists ==
    (lastPreset # "none" /\ widgetsDrawn) =>
        /\ manual_start = presets(lastPreset)
        /\ manual_end = Today
        /\ fetchStart = presets(lastPreset)
        /\ fetchEnd = Today

\* the same on the Oil page alone
C15_OilPresetRangePersists ==
    sessPage = "pages/Oil.py" => C15_PresetRangePersists

=============================================================================
